---------------------------- MODULE Spec2Model ----------------------------
(***************************************************************************)
(* Model of the nukr.store persistence layer (src/phase1.py, class         *)
(* Database) and of the callers that write through it (src/phase2.py       *)
(* forms, src/app.py data load).                                           *)
(*                                                                         *)
(* Shared state is the JSON document on disk, the backup directory and the *)
(* class-level lock.  Every session is a Streamlit script run: it may load *)
(* the document (app.py:48), call a Database method (each one a load, an   *)
(* in-memory mutation and a _save) or save its loaded copy back through    *)
(* the save_data bridge.  load() takes no lock; _save() holds the lock     *)
(* over backup + open(...,'w') + json.dump.  open(...,'w') truncates the   *)
(* document before json.dump writes it, so the document is unparseable     *)
(* between the two steps of a save.                                        *)
(***************************************************************************)
EXTENDS Integers, Sequences, FiniteSets, TLC

(***************************************************************************)
(* Bounds of the model                                                     *)
(***************************************************************************)
MaxVendors == 2
MaxProducts == 1
MaxOrders == 1
MaxHistory == 3
\* Completed writes counted by the backup specifications.
MaxWrites == 17
MaxStatsOrders == 3
MaxAmount == 60

(***************************************************************************)
(* Program constants                                                       *)
(***************************************************************************)
MAX_BACKUPS == 15

\* Two concurrent Streamlit sessions (script-run threads of one process).
Sessions == {1, 2}
None == "None"
\* Value of lock when no session holds Database._lock.
Unlocked == 0

\* uuid.uuid4()[:8]: a random token; the model draws it from a small set.
Ids == {"u1", "u2"}
\* Vendor ids are read by no operation.
VendorIds == {"v1"}

\* Vendor names are short character sequences so that str.lower() is computed.
Names == {<<"A", "c">>, <<"a", "c">>, <<"B", "o">>}
\* Prices offered to add_product (the last is invalid) and to the edit form.
AddPrices == {500, -10}
EditPrices == {700, -10}

Pending == "Pending"
Shipped == "Shipped"
Completed == "Completed"
Cancelled == "Cancelled"
ReturnRefund == "Return/Refund"
Statuses == {Pending, Shipped, Completed, Cancelled, ReturnRefund}
Terminal == {Completed, Cancelled, ReturnRefund}

\* The transition table of the seller dashboard (possible_next_states).
LegalNext(s) ==
    IF s = Pending THEN {Shipped, Cancelled}
    ELSE IF s = Shipped THEN {Completed, ReturnRefund}
    ELSE {}

VARIABLES
    file,       \* the document Config.DATA_FILE: [kind, doc, mtime]
    lastDoc,    \* history: the last completely written document content
    before,     \* history: the document's content when the latest _save began
    bdir,       \* whether Config.BACKUP_DIR exists
    backups,    \* the files of Config.BACKUP_DIR: set of [name, mtime, content]
    clock,      \* wall clock in seconds (backup names, modification times)
    ticks,      \* number of datetime.now() readings taken by create_order
    lock,       \* holder of Database._lock, or Unlocked
    pc,         \* per session: position in the script run
    mem,        \* per session: the dict in memory (loaded data / dict being saved)
    call,       \* per session: the Database call in progress
    ret,        \* what the latest step returned to its caller: [name, sess, result]
    acked,      \* history: vendor names whose add_vendor returned True
    writes,     \* history: number of completed document writes (where counted)
    ui          \* per session: the page shown and the checkout keys of st.session_state

vars == <<file, lastDoc, before, bdir, backups, clock, ticks, lock, pc, mem, call, ret, acked,
          writes, ui>>

(***************************************************************************)
(* Pure helpers                                                            *)
(***************************************************************************)
Range(s) == {s[i] : i \in DOMAIN s}

LowerChar(c) ==
    CASE c = "A" -> "a"
      [] c = "B" -> "b"
      [] OTHER -> c

\* str.lower()
Lower(n) == [i \in DOMAIN n |-> LowerChar(n[i])]

\* Database._get_default_schema (created_at is not modelled)
DefaultSchema ==
    [meta |-> [version |-> "3.0.0", last_backup |-> None],
     vendors |-> <<>>,
     products |-> <<>>,
     orders |-> <<>>,
     categories |-> "DEFAULT_CATEGORIES",
     users |-> <<>>]

\* Index of the first element of seq with the given id, 0 when there is none
\* (the for ... if x['id'] == id ... break loops).
FirstIndex(seq, id) ==
    IF \E i \in DOMAIN seq : seq[i].id = id
    THEN CHOOSE i \in DOMAIN seq :
            /\ seq[i].id = id
            /\ \A j \in DOMAIN seq : seq[j].id = id => i <= j
    ELSE 0

(***************************************************************************)
(* The document on disk                                                    *)
(***************************************************************************)
\* A parseable document holding store d, last written at time t.
DocFile(d, t) == [kind |-> "doc", doc |-> d, mtime |-> t]
\* The document after open(path, 'w') and before json.dump completed.
PartialFile(t) == [kind |-> "partial", doc |-> None, mtime |-> t]

\* load without its except clause: the exception of open or json.load
\* reaches the caller instead of a Store.
LoadRaising(f) == IF f.kind = "doc" THEN f.doc ELSE [raised |-> "Exception"]

\* Database.load: json.load of the document; any failure returns the default
\* schema.
Load(f) == IF f.kind = "doc" THEN f.doc ELSE DefaultSchema


\* The bytes shutil.copy2 copies: a parseable store or unparseable bytes.
Content(f) ==
    IF f.kind = "doc" THEN [kind |-> "doc", doc |-> f.doc]
    ELSE [kind |-> f.kind, doc |-> None]

(***************************************************************************)
(* Backup rotation (Database._create_backup)                               *)
(***************************************************************************)
\* The sort with reverse=True: backups.pop(0) takes the newest backup.
Newest(bk) == {b \in bk : \A c \in bk : b.mtime >= c.mtime}

\* The backups with the smallest modification time (candidates for
\* backups.pop(0) after sorted(..., key=os.path.getmtime); ties are in
\* os.listdir order, which is arbitrary).
Oldest(bk) == {b \in bk : \A c \in bk : b.mtime <= c.mtime}

\* while len(backups) > MAX_BACKUPS: remove the oldest.  The set of
\* directories the loop can end with.
RECURSIVE Rotate(_)
Rotate(bk) ==
    IF Cardinality(bk) <= MAX_BACKUPS THEN {bk}
    ELSE UNION {Rotate(bk \ {b}) : b \in Oldest(bk)}

\* The directories the rotation loop can be left in when an os.remove
\* raises: the loop stops (the exception is caught and logged) with more
\* than MAX_BACKUPS files.
RECURSIVE RotateFailing(_)
RotateFailing(bk) ==
    IF Cardinality(bk) <= MAX_BACKUPS THEN {}
    ELSE {bk} \cup UNION {RotateFailing(bk \ {b}) : b \in Oldest(bk)}

\* The document cannot be copied: it does not exist or cannot be read.
NoSource(f) == f.kind \in {"absent", "unreadable"}

\* The directory after shutil.copy2(self.filepath, backup_path) at time t:
\* copy2 keeps the source's modification time and replaces a file of the
\* same name (datetime.now().strftime("%Y%m%d_%H%M%S"): one name a second).
Copied(bk, f, t) ==
    {b \in bk : b.name # t}
        \cup {[name |-> t, mtime |-> f.mtime, content |-> Content(f)]}

\* The copy without the rotation loop.
CreateBackupUnrotated(bk, f, t) ==
    IF NoSource(f) THEN {bk}
    ELSE {Copied(bk, f, t)}

\* shutil.copy2(self.filepath, backup_path) at time t, then the rotation.
\* When the document cannot be copied the copy raises, which is caught and
\* logged, and nothing changes.
CreateBackup(bk, f, t) ==
    IF NoSource(f) THEN {bk}
    ELSE Rotate(Copied(bk, f, t))

\* The name sorted(os.listdir(BACKUP_DIR))[0] would pick.
EarliestBackup(bk) == CHOOSE b \in bk : \A c \in bk : b.name <= c.name

\* The name sorted(os.listdir(BACKUP_DIR))[-1] picks.
LatestBackup(bk) == CHOOSE b \in bk : \A c \in bk : c.name <= b.name

\* The document after shutil.copy2(src, self.filepath) of backup b: its bytes
\* and its modification time.
Restored(b) == [kind |-> b.content.kind, doc |-> b.content.doc, mtime |-> b.mtime]

(***************************************************************************)
(* Schema migration (Database._ensure_integrity)                           *)
(***************************************************************************)
\* What json.load returns for a document that is valid JSON and not an
\* object (a list, a number, a string, null).
NonObject == [nonobject |-> TRUE]

IsObject(d) == "nonobject" \notin DOMAIN d

\* The check with changed = True whatever the keys.
NeedsMigrationAlways(d) == TRUE

\* for key in defaults.keys(): if key not in data
NeedsMigration(d) == \E k \in DOMAIN DefaultSchema : k \notin DOMAIN d

\* The migration assigning the default to every key of the schema, present
\* or not.
MigratedOverwriting(d) ==
    [k \in DOMAIN d \cup DOMAIN DefaultSchema |->
        IF k \in DOMAIN DefaultSchema THEN DefaultSchema[k] ELSE d[k]]

\* data[key] = defaults[key] for every missing key
Migrated(d) ==
    [k \in DOMAIN d \cup DOMAIN DefaultSchema |->
        IF k \in DOMAIN d THEN d[k] ELSE DefaultSchema[k]]

(***************************************************************************)
(* In-memory mutations of the Database methods                             *)
(***************************************************************************)
\* st.session_state["selected_product"] = None
NoProduct == [none |-> TRUE]

\* st.session_state of a new browser session, as init_session_state
\* (phase1) and init_checkout_session (phase4) fill it, on the marketplace.
NewSession ==
    [page |-> "market",
     selected_product |-> NoProduct,
     checkout_step |-> 1,
     shipping_data |-> {},
     payment_data |-> {},
     order_id |-> None,
     order_success_id |-> None]

NoData == [none |-> TRUE]
NoCall == [name |-> "none"]

\* The duplicate check with the names compared as written (no .lower()).
IsDuplicateExact(data, name) ==
    \E i \in DOMAIN data.vendors : data.vendors[i].name = name

\* add_vendor: the duplicate check
IsDuplicate(data, name) ==
    \E i \in DOMAIN data.vendors : Lower(data.vendors[i].name) = Lower(name)

\* add_vendor: data['vendors'].append(new_vendor)
WithVendor(data, id, name, bank) ==
    [data EXCEPT !.vendors =
        Append(@, [id |-> id, name |-> name, bank |-> bank, status |-> "Active"])]

\* add_product: data['products'].append(new_product)
WithProduct(data, id, vendor, name, price) ==
    [data EXCEPT !.products =
        Append(@, [id |-> id, vendor |-> vendor, name |-> name,
                   price |-> price, active |-> TRUE])]

\* The new order holding product_obj itself instead of a copy of four of
\* its fields.
NewOrderLive(id, ts, p) ==
    [id |-> id,
     timestamp |-> ts,
     product_snapshot |-> p,
     customer |-> "customer",
     payment |-> [method |-> "COD", proof |-> None, is_verified |-> FALSE],
     status |-> Pending,
     history |-> <<[from |-> "placed", to |-> Pending]>>]

\* create_order: the new order built from product_obj
NewOrder(id, ts, p) ==
    [id |-> id,
     timestamp |-> ts,
     product_snapshot |-> [id |-> p.id, name |-> p.name,
                           price |-> p.price, vendor |-> p.vendor],
     customer |-> "customer",
     payment |-> [method |-> "COD", proof |-> None, is_verified |-> FALSE],
     status |-> Pending,
     history |-> <<[from |-> "placed", to |-> Pending]>>]

\* create_order: data['orders'].append(new_order)
WithOrder(data, id, ts, p) ==
    [data EXCEPT !.orders = Append(@, NewOrder(id, ts, p))]

\* update_order_status: the loop body on the order found at index i
WithStatus(data, i, new) ==
    [data EXCEPT !.orders[i] =
        [@ EXCEPT !.status = new,
                  !.history = Append(@, [from |-> data.orders[i].status, to |-> new])]]

\* A hard delete: the products with the id are taken out of the list.
WithoutProductRemoved(data, id) ==
    [data EXCEPT !.products = SelectSeq(@, LAMBDA p : p.id # id)]

\* soft_delete_product: p['active'] = False on the first product with the id
WithoutProduct(data, id) ==
    LET i == FirstIndex(data.products, id)
    IN IF i = 0 THEN data ELSE [data EXCEPT !.products[i].active = FALSE]

\* The edit with orders holding a reference to the product dict instead of
\* a copy of its fields: the edit shows in their product_snapshot.
WithEditLive(data, i, name, price) ==
    [data EXCEPT !.products[i].name = name, !.products[i].price = price,
                 !.orders = [k \in DOMAIN data.orders |->
                    IF data.orders[k].product_snapshot.id = data.products[i].id
                    THEN [data.orders[k] EXCEPT !.product_snapshot.name = name,
                                                !.product_snapshot.price = price]
                    ELSE data.orders[k]]]

\* render_inventory_manager, Save Changes: p['name'], p['price'] = ...
WithEdit(data, i, name, price) ==
    [data EXCEPT !.products[i].name = name, !.products[i].price = price]

\* render_store_settings, Save Configuration: vendor['bank'] = new_bank
WithSettings(data, i, bank) ==
    [data EXCEPT !.vendors[i].bank = bank]

(***************************************************************************)
(* Initial state: the state after Database() ran on a machine with no      *)
(* document: _ensure_integrity saved the default schema; _create_backup    *)
(* created the backup directory and its copy failed (no document yet).     *)
(***************************************************************************)
Init ==
    /\ file = DocFile(DefaultSchema, 0)
    /\ lastDoc = DefaultSchema
    /\ before = [kind |-> "absent", doc |-> None]
    /\ bdir = TRUE
    /\ backups = {}
    /\ clock = 0
    /\ ticks = 0
    /\ ui = [s \in Sessions |-> NewSession]
    /\ lock = Unlocked
    /\ pc = [s \in Sessions |-> "idle"]
    /\ mem = [s \in Sessions |-> NoData]
    /\ call = [s \in Sessions |-> NoCall]
    /\ ret = NoCall
    /\ acked = {}
    /\ writes = 1

disk == <<file, lastDoc, before, bdir, backups, clock, lock, writes>>

\* The call returns to its caller without saving.
Return(s, name, result) ==
    /\ ret' = [name |-> name, sess |-> s, result |-> result]
    /\ pc' = [pc EXCEPT ![s] = "idle"]
    /\ mem' = [mem EXCEPT ![s] = NoData]
    /\ call' = [call EXCEPT ![s] = NoCall]

\* The call goes on to self._save(data).
GoSave(s, c, data) ==
    /\ pc' = [pc EXCEPT ![s] = "save"]
    /\ mem' = [mem EXCEPT ![s] = data]
    /\ call' = [call EXCEPT ![s] = c]
    /\ ret' = NoCall

(***************************************************************************)
(* Script run: data = phase1.load_data()  (app.py:48)                      *)
(***************************************************************************)
LoadData(s) ==
    /\ pc[s] = "idle"
    /\ pc' = [pc EXCEPT ![s] = "ready"]
    /\ mem' = [mem EXCEPT ![s] = Load(file)]
    /\ ret' = NoCall
    /\ UNCHANGED <<disk, ticks, ui, call, acked>>

\* The script run ends without a write (st.rerun, or nothing clicked).
Rerun(s) ==
    /\ pc[s] = "ready"
    /\ pc' = [pc EXCEPT ![s] = "idle"]
    /\ mem' = [mem EXCEPT ![s] = NoData]
    /\ ret' = NoCall
    /\ UNCHANGED <<disk, ticks, ui, call, acked>>

(***************************************************************************)
(* Database methods, up to the call of _save                               *)
(***************************************************************************)
AddVendor(s, name, bank, id) ==
    /\ pc[s] = "idle"
    /\ LET data == Load(file)
       IN IF IsDuplicate(data, name)
          THEN Return(s, "add_vendor", "False")
          ELSE /\ Len(data.vendors) < MaxVendors
               /\ GoSave(s, [name |-> "add_vendor", arg |-> name],
                         WithVendor(data, id, name, bank))
    /\ UNCHANGED <<disk, ticks, ui, acked>>

\* add_product without the price check.
AddProductUnchecked(s, vendor, name, price, id) ==
    /\ pc[s] = "idle"
    /\ LET data == Load(file)
       IN /\ Len(data.products) < MaxProducts
          /\ GoSave(s, [name |-> "add_product", arg |-> id],
                    WithProduct(data, id, vendor, name, price))
    /\ UNCHANGED <<disk, ticks, ui, acked>>

AddProduct(s, vendor, name, price, id) ==
    /\ pc[s] = "idle"
    /\ IF price < 0
       THEN Return(s, "add_product", "ValidationError")
       ELSE LET data == Load(file)
            IN /\ Len(data.products) < MaxProducts
               /\ GoSave(s, [name |-> "add_product", arg |-> id],
                         WithProduct(data, id, vendor, name, price))
    /\ UNCHANGED <<disk, ticks, ui, acked>>

\* The products of the data session s loaded.
Shown(s) == IF pc[s] = "ready" THEN Range(mem[s].products) ELSE {}

\* create_order while the Store holds fewer than n orders.  product_obj is
\* a product of the data the caller loaded; id is the first eight characters
\* of uuid.uuid4().
CreateOrderUpTo(s, p, id, n) ==
    /\ pc[s] = "ready"
    /\ p \in Shown(s)
    /\ ticks < n
    /\ LET data == Load(file)
       IN /\ Len(data.orders) < n
          /\ GoSave(s, [name |-> "create_order", arg |-> id],
                    WithOrder(data, id, ticks + 1, p))
    /\ ticks' = ticks + 1
    /\ UNCHANGED <<disk, acked, ui>>

CreateOrder(s, p, id) == CreateOrderUpTo(s, p, id, MaxOrders)

\* update_order_status without the found check: it saves what it loaded
\* when no order has the id.
UpdateOrderStatusUnchecked(s, id, new) ==
    /\ pc[s] = "idle"
    /\ LET data == Load(file)
           i == FirstIndex(data.orders, id)
       IN IF i = 0
          THEN GoSave(s, [name |-> "update_order_status", arg |-> id,
                          old |-> None, new |-> new], data)
          ELSE /\ Len(data.orders[i].history) < MaxHistory
               /\ GoSave(s, [name |-> "update_order_status", arg |-> id,
                             old |-> data.orders[i].status, new |-> new],
                         WithStatus(data, i, new))
    /\ UNCHANGED <<disk, ticks, ui, acked>>

UpdateOrderStatus(s, id, new) ==
    /\ pc[s] = "idle"
    /\ LET data == Load(file)
           i == FirstIndex(data.orders, id)
       IN IF i = 0
          THEN Return(s, "update_order_status", "DatabaseError")
          ELSE /\ Len(data.orders[i].history) < MaxHistory
               /\ GoSave(s, [name |-> "update_order_status", arg |-> id,
                             old |-> data.orders[i].status, new |-> new],
                         WithStatus(data, i, new))
    /\ UNCHANGED <<disk, ticks, ui, acked>>

SoftDeleteProduct(s, id) ==
    /\ pc[s] = "idle"
    /\ GoSave(s, [name |-> "soft_delete_product", arg |-> id],
              WithoutProduct(Load(file), id))
    /\ UNCHANGED <<disk, ticks, ui, acked>>

(***************************************************************************)
(* Forms that change the loaded data and call save_data(data)              *)
(***************************************************************************)
EditProduct(s, i, name, price) ==
    /\ pc[s] = "ready"
    /\ i \in DOMAIN mem[s].products
    /\ mem[s].products[i].active
    /\ GoSave(s, [name |-> "save_data", arg |-> "edit"],
              WithEdit(mem[s], i, name, price))
    /\ UNCHANGED <<disk, ticks, ui, acked>>

SaveSettings(s, i, bank) ==
    /\ pc[s] = "ready"
    /\ i \in DOMAIN mem[s].vendors
    /\ GoSave(s, [name |-> "save_data", arg |-> "settings"],
              WithSettings(mem[s], i, bank))
    /\ UNCHANGED <<disk, ticks, ui, acked>>

(***************************************************************************)
(* Database._save                                                          *)
(***************************************************************************)
\* _save without the with self._lock block.
LockIgnored(s) == TRUE

\* The lock can be taken by s.
LockFree(s) == lock = Unlocked

\* with self._lock: self._create_backup(); open(self.filepath, 'w')
\* at time t.
SaveBegin(s, t) ==
    /\ pc[s] = "save"
    /\ LockFree(s)
    /\ lock' = s
    /\ t >= clock
    /\ clock' = t
    /\ bdir' = TRUE
    /\ backups' \in CreateBackup(backups, file, t)
    /\ file' = PartialFile(t)
    /\ before' = Content(file)
    /\ pc' = [pc EXCEPT ![s] = "writing"]
    /\ ret' = NoCall
    /\ UNCHANGED <<lastDoc, ticks, ui, mem, call, acked, writes>>

\* json.dump(data, f) completes, the file is closed, the lock released.
SaveEnd(s) ==
    /\ pc[s] = "writing"
    /\ file' = DocFile(mem[s], clock)
    /\ lastDoc' = mem[s]
    /\ lock' = Unlocked
    /\ acked' = IF call[s].name = "add_vendor" THEN acked \cup {call[s].arg} ELSE acked
    /\ Return(s, call[s].name, "ok")
    /\ UNCHANGED <<before, bdir, backups, clock, ticks, ui>>

\* The failing write leaving the with block without releasing the lock.
SaveFailsHolding(s) ==
    /\ pc[s] = "writing"
    /\ Return(s, call[s].name, "DatabaseError")
    /\ UNCHANGED <<file, lastDoc, before, bdir, backups, clock, lock, ticks, ui,
                   acked, writes>>

\* json.dump raises (disk full): except -> raise DatabaseError.  The
\* document stays as open(..., 'w') and the partial write left it.
SaveFails(s) ==
    /\ pc[s] = "writing"
    /\ lock' = Unlocked
    /\ Return(s, call[s].name, "DatabaseError")
    /\ UNCHANGED <<file, lastDoc, before, bdir, backups, clock, ticks, ui, acked, writes>>

\* open(self.filepath, 'w') raises (permission denied) after the backup was
\* taken: except -> raise DatabaseError.  The document is not touched.
SaveOpenFails(s, t) ==
    /\ pc[s] = "save"
    /\ LockFree(s)
    /\ t >= clock
    /\ clock' = t
    /\ bdir' = TRUE
    /\ backups' \in CreateBackup(backups, file, t)
    /\ before' = Content(file)
    /\ Return(s, call[s].name, "DatabaseError")
    /\ UNCHANGED <<file, lastDoc, lock, ticks, ui, acked, writes>>

\* _create_backup: shutil.copy2 raises although the document exists (the
\* backup directory is full or not writable); the exception is caught and
\* logged and _save goes on to open(self.filepath, 'w').
SaveBeginCopyFails(s, t) ==
    /\ pc[s] = "save"
    /\ LockFree(s)
    /\ bdir
    /\ ~NoSource(file)
    /\ lock' = s
    /\ t >= clock
    /\ clock' = t
    /\ file' = PartialFile(t)
    /\ before' = Content(file)
    /\ pc' = [pc EXCEPT ![s] = "writing"]
    /\ ret' = NoCall
    /\ UNCHANGED <<lastDoc, bdir, backups, ticks, ui, mem, call, acked, writes>>

\* _create_backup: the copy is made and an os.remove of the rotation raises;
\* the exception is caught and logged and _save goes on to write.
SaveBeginPruneFails(s, t) ==
    /\ pc[s] = "save"
    /\ LockFree(s)
    /\ bdir
    /\ ~NoSource(file)
    /\ lock' = s
    /\ t >= clock
    /\ clock' = t
    /\ backups' \in RotateFailing(Copied(backups, file, t))
    /\ file' = PartialFile(t)
    /\ before' = Content(file)
    /\ pc' = [pc EXCEPT ![s] = "writing"]
    /\ ret' = NoCall
    /\ UNCHANGED <<lastDoc, bdir, ticks, ui, mem, call, acked, writes>>

(***************************************************************************)
(* Spec: two sessions registering vendors and saving store settings, from  *)
(* the freshly initialised store.  No operation of a running session reads *)
(* the clock or the backup directory; all saves happen within one second.  *)
(***************************************************************************)
\* json.dump completes; the write is not counted.
SaveEndUncounted(s) == SaveEnd(s) /\ UNCHANGED writes

SaveSteps(s) ==
    \/ SaveBegin(s, clock)
    \/ SaveEndUncounted(s)
    \/ SaveFails(s)
    \/ SaveOpenFails(s, clock)

Next ==
    \E s \in Sessions :
        \/ LoadData(s)
        \/ Rerun(s)
        \/ \E n \in Names, id \in VendorIds : AddVendor(s, n, "t0", id)
        \/ \E i \in 1..MaxVendors : SaveSettings(s, i, "t1")
        \/ SaveSteps(s)

Spec == Init /\ [][Next]_vars

(***************************************************************************)
(* SpecOrders: two sessions placing orders, changing order status and      *)
(* editing or deleting the product, from a store in which vendor Ac has    *)
(* listed one product (the state after add_vendor and add_product).        *)
(***************************************************************************)
StoreWithVendor == WithVendor(DefaultSchema, "v1", <<"A", "c">>, "t0")
StoreWithProduct == WithProduct(StoreWithVendor, "u1", <<"A", "c">>, "Mug", 500)

InitOrders ==
    /\ file = DocFile(StoreWithProduct, 0)
    /\ lastDoc = StoreWithProduct
    /\ before = [kind |-> "doc", doc |-> StoreWithVendor]
    /\ bdir = TRUE
    /\ backups = {[name |-> 0, mtime |-> 0,
                   content |-> [kind |-> "doc", doc |-> StoreWithVendor]]}
    /\ clock = 0
    /\ ticks = 0
    /\ ui = [s \in Sessions |-> NewSession]
    /\ lock = Unlocked
    /\ pc = [s \in Sessions |-> "idle"]
    /\ mem = [s \in Sessions |-> NoData]
    /\ call = [s \in Sessions |-> NoCall]
    /\ ret = NoCall
    /\ acked = {}
    /\ writes = 3

NextOrders ==
    \E s \in Sessions :
        \/ LoadData(s)
        \/ Rerun(s)
        \/ \E p \in Shown(s), id \in Ids : CreateOrder(s, p, id)
        \/ \E id \in Ids : UpdateOrderStatus(s, id, Shipped)
        \/ EditProduct(s, 1, "Cup", 700)
        \/ SoftDeleteProduct(s, "u1")
        \/ SaveSteps(s)

SpecOrders == InitOrders /\ [][NextOrders]_vars

(***************************************************************************)
(* SpecStatus: two sessions calling update_order_status with any status,   *)
(* from a store holding one Pending order (the state after create_order).  *)
(***************************************************************************)
StoreWithOrder ==
    WithOrder(StoreWithProduct, "u1", 1, StoreWithProduct.products[1])

InitStatus ==
    /\ file = DocFile(StoreWithOrder, 0)
    /\ lastDoc = StoreWithOrder
    /\ before = [kind |-> "doc", doc |-> StoreWithProduct]
    /\ bdir = TRUE
    /\ backups = {[name |-> 0, mtime |-> 0,
                   content |-> [kind |-> "doc", doc |-> StoreWithProduct]]}
    /\ clock = 0
    /\ ticks = 1
    /\ ui = [s \in Sessions |-> NewSession]
    /\ lock = Unlocked
    /\ pc = [s \in Sessions |-> "idle"]
    /\ mem = [s \in Sessions |-> NoData]
    /\ call = [s \in Sessions |-> NoCall]
    /\ ret = NoCall
    /\ acked = {}
    /\ writes = 4

NextStatus ==
    \E s \in Sessions :
        \/ \E id \in Ids, new \in Statuses : UpdateOrderStatus(s, id, new)
        \/ SaveSteps(s)

SpecStatus == InitStatus /\ [][NextStatus]_vars

(***************************************************************************)
(* SpecProducts: two sessions listing a product (add_product with a valid  *)
(* or a negative price) and editing the listed product's price in the      *)
(* inventory form, from a store with vendor Ac and no product.  The form    *)
(* edits the product object it iterates over, so no operation here reads a *)
(* product id.                                                             *)
(***************************************************************************)
InitProducts ==
    /\ file = DocFile(StoreWithVendor, 0)
    /\ lastDoc = StoreWithVendor
    /\ before = [kind |-> "doc", doc |-> DefaultSchema]
    /\ bdir = TRUE
    /\ backups = {[name |-> 0, mtime |-> 0,
                   content |-> [kind |-> "doc", doc |-> DefaultSchema]]}
    /\ clock = 0
    /\ ticks = 0
    /\ ui = [s \in Sessions |-> NewSession]
    /\ lock = Unlocked
    /\ pc = [s \in Sessions |-> "idle"]
    /\ mem = [s \in Sessions |-> NoData]
    /\ call = [s \in Sessions |-> NoCall]
    /\ ret = NoCall
    /\ acked = {}
    /\ writes = 2

NextProducts ==
    \E s \in Sessions :
        \/ LoadData(s)
        \/ Rerun(s)
        \/ \E price \in AddPrices : AddProduct(s, <<"A", "c">>, "Mug", price, "u1")
        \/ \E i \in 1..MaxProducts, price \in EditPrices : EditProduct(s, i, "Cup", price)
        \/ SaveSteps(s)

SpecProducts == InitProducts /\ [][NextProducts]_vars

(***************************************************************************)
(* SpecBackups: two sessions editing and deleting the product while the    *)
(* clock advances, from a store whose backup directory is nearly full: the *)
(* document was created at second 0 and written once a second since        *)
(* (add_vendor, add_product, then saves that changed nothing), so the      *)
(* backup taken at second t holds the document written at second t - 1.    *)
(* The results of the code depend on the order and equality of seconds     *)
(* only, so each save begins in the second of the previous one or in the   *)
(* next.  Every copy, removal and write succeeds.                          *)
(***************************************************************************)
Warm == MAX_BACKUPS - 2

WarmContent(t) ==
    IF t = 1 THEN DefaultSchema
    ELSE IF t = 2 THEN StoreWithVendor
    ELSE StoreWithProduct

InitBackups ==
    /\ file = DocFile(StoreWithProduct, Warm)
    /\ lastDoc = StoreWithProduct
    /\ before = [kind |-> "doc", doc |-> StoreWithProduct]
    /\ bdir = TRUE
    /\ backups = {[name |-> t, mtime |-> t - 1,
                   content |-> [kind |-> "doc", doc |-> WarmContent(t)]] : t \in 1..Warm}
    /\ clock = Warm
    /\ ticks = 0
    /\ ui = [s \in Sessions |-> NewSession]
    /\ lock = Unlocked
    /\ pc = [s \in Sessions |-> "idle"]
    /\ mem = [s \in Sessions |-> NoData]
    /\ call = [s \in Sessions |-> NoCall]
    /\ ret = NoCall
    /\ acked = {}
    /\ writes = Warm + 1

\* json.dump completes; the write is counted.
SaveEndCounted(s) == SaveEnd(s) /\ writes' = writes + 1

Editing(s) ==
    \/ LoadData(s)
    \/ Rerun(s)
    \/ EditProduct(s, 1, "Cup", 700)
    \/ SoftDeleteProduct(s, "u1")

NextBackups ==
    \E s \in Sessions :
        \/ Editing(s)
        \/ writes < MaxWrites /\ \E t \in {clock, clock + 1} : SaveBegin(s, t)
        \/ SaveEndCounted(s)

SpecBackups == InitBackups /\ [][NextBackups]_vars

(***************************************************************************)
(* SpecBackupFaults: SpecBackups in an environment where the copy or a     *)
(* removal of _create_backup can fail.                                     *)
(***************************************************************************)
NextBackupFaults ==
    \E s \in Sessions :
        \/ Editing(s)
        \/ writes < MaxWrites /\ \E t \in {clock, clock + 1} :
              \/ SaveBegin(s, t)
              \/ SaveBeginCopyFails(s, t)
              \/ SaveBeginPruneFails(s, t)
        \/ SaveEndCounted(s)

SpecBackupFaults == InitBackups /\ [][NextBackupFaults]_vars

(***************************************************************************)
(* SpecBoot: the program starts on a disk left by an earlier run.  The     *)
(* first session to import phase1 constructs the Database (db = Database() *)
(* at module level runs _ensure_integrity); the others wait for the import *)
(* and then load the document.  Writes of the document succeed; creating   *)
(* the backup directory can fail.                                          *)
(***************************************************************************)
\* A document written by an older version: no orders, categories or users.
\* The document kinds at start-up: "unreadable" cannot be opened (open
\* raises), "undecodable" holds bytes that are not text in the encoding of
\* open(path, 'r') (json.load raises UnicodeDecodeError, which is not a
\* JSONDecodeError), "partial" holds text that is not JSON.
Legacy ==
    [meta |-> [version |-> "2.0.0", last_backup |-> None],
     vendors |-> StoreWithVendor.vendors,
     products |-> <<>>]

BootFiles ==
    {[kind |-> "absent", doc |-> None, mtime |-> 0],
     [kind |-> "unreadable", doc |-> None, mtime |-> 3],
     [kind |-> "undecodable", doc |-> None, mtime |-> 3],
     PartialFile(3),
     DocFile(StoreWithVendor, 3),
     DocFile(Legacy, 3),
     DocFile(NonObject, 3)}

BootBackups ==
    {[name |-> 1, mtime |-> 0, content |-> [kind |-> "doc", doc |-> StoreWithVendor]],
     [name |-> 2, mtime |-> 1, content |-> [kind |-> "doc", doc |-> Legacy]],
     [name |-> 3, mtime |-> 2, content |-> [kind |-> "partial", doc |-> None]]}

InitBoot ==
    /\ file \in BootFiles
    /\ lastDoc = IF file.kind = "doc" THEN file.doc ELSE DefaultSchema
    /\ before = [kind |-> "absent", doc |-> None]
    /\ bdir \in BOOLEAN
    /\ backups \in IF bdir THEN SUBSET BootBackups ELSE {{}}
    /\ clock = 4
    /\ ticks = 0
    /\ ui = [s \in Sessions |-> NewSession]
    /\ lock = Unlocked
    /\ \E b \in Sessions : pc = [s \in Sessions |-> IF s = b THEN "boot" ELSE "import"]
    /\ mem = [s \in Sessions |-> NoData]
    /\ call = [s \in Sessions |-> NoCall]
    /\ ret = NoCall
    /\ acked = {}
    /\ writes = 0

Booting(s) == pc[s] = "boot" \/ call[s].name = "_ensure_integrity"
Booted == \A s \in Sessions : ~Booting(s)

\* restore_latest_backup running the integrity check again on the document
\* it restored.
RestoreLatestBackupRevalidating(s) ==
    IF ~bdir \/ backups = {}
    THEN /\ GoSave(s, [name |-> "_ensure_integrity", arg |-> "reset"], DefaultSchema)
         /\ UNCHANGED <<disk, ticks, ui, acked>>
    ELSE /\ file' = Restored(LatestBackup(backups))
         /\ lastDoc' = IF file'.kind = "doc" THEN file'.doc ELSE lastDoc
         /\ ret' = [name |-> "_ensure_integrity", sess |-> s, result |-> "restored"]
         /\ UNCHANGED <<before, bdir, backups, clock, lock, writes, ticks, ui, acked,
                        pc, mem, call>>

\* restore_latest_backup, called for a document that is not valid JSON
RestoreLatestBackup(s) ==
    IF ~bdir \/ backups = {}
    THEN /\ GoSave(s, [name |-> "_ensure_integrity", arg |-> "reset"], DefaultSchema)
         /\ UNCHANGED <<disk, ticks, ui, acked>>
    ELSE /\ file' = Restored(LatestBackup(backups))
         /\ lastDoc' = IF file'.kind = "doc" THEN file'.doc ELSE lastDoc
         /\ Return(s, "_ensure_integrity", "restored")
         /\ UNCHANGED <<before, bdir, backups, clock, lock, writes, ticks, ui, acked>>

\* Database.__init__ -> _ensure_integrity
EnsureIntegrity(s) ==
    /\ pc[s] = "boot"
    /\ CASE file.kind = "absent" ->
              /\ GoSave(s, [name |-> "_ensure_integrity", arg |-> "create"], DefaultSchema)
              /\ UNCHANGED <<disk, ticks, ui, acked>>
         [] file.kind \in {"unreadable", "undecodable"} ->
              /\ Return(s, "_ensure_integrity", "logged")
              /\ UNCHANGED <<disk, ticks, ui, acked>>
         [] file.kind = "partial" -> RestoreLatestBackup(s)
         [] file.kind = "doc" ->
              /\ IF ~IsObject(file.doc)
                 THEN Return(s, "_ensure_integrity", "logged")
                 ELSE IF NeedsMigration(file.doc)
                 THEN GoSave(s, [name |-> "_ensure_integrity", arg |-> "migrate"],
                             Migrated(file.doc))
                 ELSE Return(s, "_ensure_integrity", "unchanged")
              /\ UNCHANGED <<disk, ticks, ui, acked>>

\* import phase1 returns in a session that waited for the construction.
Imported(s) ==
    /\ pc[s] = "import"
    /\ Booted
    /\ pc' = [pc EXCEPT ![s] = "idle"]
    /\ ret' = NoCall
    /\ UNCHANGED <<disk, ticks, ui, mem, call, acked>>

\* _create_backup: os.makedirs(Config.BACKUP_DIR) raises.  The call is
\* outside the try of _create_backup, so the exception reaches _save, which
\* raises DatabaseError without opening the document.  Raised by the save
\* of a missing or unrestorable document it leaves the constructor (the
\* import fails and the next script run imports again); raised by the
\* migration save it is caught and logged by _ensure_integrity.
SaveMkdirFails(s) ==
    /\ pc[s] = "save"
    /\ LockFree(s)
    /\ ~bdir
    /\ ret' = [name |-> call[s].name, sess |-> s, result |-> "DatabaseError"]
    /\ pc' = [pc EXCEPT ![s] =
                IF call[s].name = "_ensure_integrity" /\ call[s].arg # "migrate"
                THEN "boot" ELSE "idle"]
    /\ mem' = [mem EXCEPT ![s] = NoData]
    /\ call' = [call EXCEPT ![s] = NoCall]
    /\ UNCHANGED <<disk, ticks, ui, acked>>

NextBoot ==
    \E s \in Sessions :
        \/ EnsureIntegrity(s)
        \/ Imported(s)
        \/ LoadData(s)
        \/ Rerun(s)
        \/ SaveBegin(s, clock)
        \/ SaveEndCounted(s)
        \/ SaveMkdirFails(s)

SpecBoot == InitBoot /\ [][NextBoot]_vars

(***************************************************************************)
(* SpecReboot: SpecBoot with the server process started again at any time  *)
(* no call is running, so that the integrity check runs on the document    *)
(* an earlier run left.                                                    *)
(***************************************************************************)
\* The process ends and is started again: db = Database() runs in the first
\* session to import phase1.
Restart ==
    /\ \A s \in Sessions : pc[s] \in {"idle", "ready"}
    /\ \E b \in Sessions : pc' = [s \in Sessions |-> IF s = b THEN "boot" ELSE "import"]
    /\ mem' = [s \in Sessions |-> NoData]
    /\ call' = [s \in Sessions |-> NoCall]
    /\ ret' = NoCall
    /\ UNCHANGED <<disk, ticks, ui, acked>>

NextReboot == NextBoot \/ Restart

SpecReboot == InitBoot /\ [][NextReboot]_vars

(***************************************************************************)
(* Properties                                                              *)
(***************************************************************************)
VendorNames(d) == {d.vendors[i].name : i \in DOMAIN d.vendors}
AllIdle == \A s \in Sessions : pc[s] = "idle"

\* s loads the document for a script run in this step.
LoadsData(s) == pc[s] = "idle" /\ pc'[s] = "ready"

\* C1: the persisted Store never holds two vendors whose names are equal
\* under case-insensitive comparison, whatever the interleaving of
\* add_vendor calls and stale whole-document saves.
C1_UniqueVendorNames ==
    file.kind = "doc" =>
        \A i, j \in DOMAIN file.doc.vendors :
            Lower(file.doc.vendors[i].name) = Lower(file.doc.vendors[j].name) => i = j

\* Two sessions registered "Ac" and "ac", both calls returned True, and the
\* persisted Store holds two vendors.
C1_Witness ==
    /\ file.kind = "doc"
    /\ Len(file.doc.vendors) = 2
    /\ {<<"A", "c">>, <<"a", "c">>} \subseteq acked

\* C2: no update_order_status call on an order whose status is Completed,
\* Cancelled or Return/Refund, asking for another status, gets past the
\* check to change the order: it fails with InvalidTransitionError.
C2_TerminalRejected ==
    \A s \in Sessions :
        call[s].name = "update_order_status" =>
            ~(call[s].old \in Terminal /\ call[s].new # call[s].old)

\* C3: every persisted status is one of the five statuses and every status
\* change recorded in a persisted order's history is a legal transition
\* (Pending->Shipped, Pending->Cancelled, Shipped->Completed,
\* Shipped->Return/Refund).
C3_OnlyLegalTransitions ==
    file.kind = "doc" =>
        \A i \in DOMAIN file.doc.orders :
            /\ file.doc.orders[i].status \in Statuses
            /\ \A k \in DOMAIN file.doc.orders[i].history :
                  LET e == file.doc.orders[i].history[k]
                  IN e.from # "placed" => e.to \in LegalNext(e.from)

\* C4: once an order is persisted, every later persisted version of that
\* order (same id and creation timestamp) has the same product_snapshot.
C4_SnapshotImmutable ==
    [][file'.kind = "doc" =>
        \A i \in DOMAIN lastDoc.orders, j \in DOMAIN file'.doc.orders :
            (/\ file'.doc.orders[j].id = lastDoc.orders[i].id
             /\ file'.doc.orders[j].timestamp = lastDoc.orders[i].timestamp)
            => file'.doc.orders[j].product_snapshot = lastDoc.orders[i].product_snapshot]_vars

\* An order taken for the product as "Mug" at 500 is persisted, and the
\* product has since been renamed, repriced and soft-deleted.
C4_Witness ==
    /\ file.kind = "doc"
    /\ Len(file.doc.orders) = 1
    /\ Len(file.doc.products) = 1
    /\ file.doc.orders[1].product_snapshot.name = "Mug"
    /\ file.doc.orders[1].product_snapshot.price = 500
    /\ file.doc.products[1].name = "Cup"
    /\ file.doc.products[1].price = 700
    /\ ~file.doc.products[1].active

\* C5: when no call is in progress, every vendor whose add_vendor returned
\* True is in the persisted Store (no registration is lost to a concurrent
\* writer).
C5_NoLostUpdate ==
    (AllIdle /\ file.kind = "doc") => acked \subseteq VendorNames(file.doc)

\* C6: a completed save never removes an entity: every vendor, product and
\* order of the document written last is in the document written next.
C6_NeverRemoved ==
    [][file'.kind = "doc" =>
        /\ \A i \in DOMAIN lastDoc.vendors :
              \E j \in DOMAIN file'.doc.vendors :
                  file'.doc.vendors[j].name = lastDoc.vendors[i].name
        /\ \A i \in DOMAIN lastDoc.products :
              \E j \in DOMAIN file'.doc.products :
                  file'.doc.products[j].id = lastDoc.products[i].id
        /\ \A i \in DOMAIN lastDoc.orders :
              \E j \in DOMAIN file'.doc.orders :
                  file'.doc.orders[j].id = lastDoc.orders[i].id]_vars

\* C7: a load that runs while another session is inside _save returns the
\* Store as it was before that save or the Store that save is writing.
C7_AtomicWrite ==
    [][\A s \in Sessions :
        (LoadsData(s) /\ lock # Unlocked /\ before.kind = "doc")
        => (mem'[s] = before.doc \/ mem'[s] = mem[lock])]_vars

\* C8: at most one session is inside the backup-then-write section of
\* _save, and it is the session holding the lock.
C8_SavesSerialized ==
    \A s, t \in Sessions :
        (pc[s] = "writing" /\ pc[t] = "writing") => (s = t /\ lock = s)

\* One session is writing the document while the other has reached _save
\* and waits for the lock.
C8_Witness ==
    \E s, t \in Sessions :
        /\ pc[s] = "writing"
        /\ pc[t] = "save"
        /\ call[s].name = "add_vendor"
        /\ call[t].name = "save_data"

\* C9: when _save raises DatabaseError the document holds what it held when
\* the save began.
C9_FailedSaveCommitsNothing ==
    [][\A s \in Sessions :
        (pc[s] \in {"save", "writing"} /\ pc'[s] = "idle"
         /\ ret'.sess = s /\ ret'.result = "DatabaseError")
        => Content(file') = before']_vars

\* C10: when the document is unparseable (no save in progress) and the
\* latest backup is a valid Store, load() returns that backup's Store.
C10_LoadRestoresBackup ==
    [][\A s \in Sessions :
        (/\ LoadsData(s)
         /\ file.kind = "partial"
         /\ lock = Unlocked
         /\ backups # {}
         /\ LatestBackup(backups).content.kind = "doc")
        => mem'[s] = LatestBackup(backups).content.doc]_vars

\* C11: once more than MAX_BACKUPS writes have completed and no save is in
\* progress, exactly MAX_BACKUPS backup files remain in the directory.
C11_ExactlyMaxBackups ==
    (lock = Unlocked /\ writes > MAX_BACKUPS) => Cardinality(backups) = MAX_BACKUPS

SnapshotFailed ==
    \/ ~bdir'
    \/ ~(\E b \in backups' : b.content = Content(file))
    \/ Cardinality(backups') > MAX_BACKUPS

\* C13: a save whose snapshot fails still goes on to write the document; it
\* does not raise.
C13_BackupBestEffort ==
    [][\A s \in Sessions :
        (pc[s] = "save" /\ pc'[s] # "save" /\ SnapshotFailed)
        => pc'[s] = "writing"]_vars

\* The top-level keys of the default schema the contract names.
SchemaKeys == {"meta", "vendors", "products", "orders", "categories"}

\* C14: once _ensure_integrity has completed, the Store load() returns has
\* every top-level key of the default schema.
C14_IntegrityLeavesValidStore ==
    Booted => SchemaKeys \subseteq DOMAIN Load(file)

\* C15: load() never raises: from a document that cannot be read or parsed
\* it returns the default schema (every key, no vendors, products or
\* orders), and from a parseable document what the document holds.
C15_LoadNeverRaises ==
    [][\A s \in Sessions :
        LoadsData(s) =>
            IF file.kind = "doc" THEN mem'[s] = file.doc
            ELSE /\ DOMAIN mem'[s] = DOMAIN DefaultSchema
                 /\ mem'[s].vendors = <<>>
                 /\ mem'[s].products = <<>>
                 /\ mem'[s].orders = <<>>]_vars

\* Both sessions loaded a Store from a document that cannot be parsed (the
\* integrity check restored it from an unparseable backup).
C15_Witness ==
    /\ file.kind = "partial"
    /\ \A s \in Sessions : pc[s] = "ready" /\ mem[s] = DefaultSchema

\* C16: an add_vendor call goes on to append and save only when no vendor
\* of the Store it loaded has the name under case-insensitive comparison,
\* and a call that returns False leaves the document and the backup
\* directory as they were (no write, no backup).
C16_DuplicateRejected ==
    [][\A s \in Sessions :
        /\ (pc[s] = "idle" /\ pc'[s] = "save" /\ call'[s].name = "add_vendor")
           => \A i \in DOMAIN Load(file).vendors :
                 Lower(Load(file).vendors[i].name) # Lower(call'[s].arg)
        /\ (pc[s] = "idle" /\ ret'.name = "add_vendor" /\ ret'.sess = s
            /\ ret'.result = "False")
           => /\ file' = file
              /\ backups' = backups
              /\ lock' = lock]_vars

\* The latest call was an add_vendor that returned False while the Store
\* holds the one vendor registered before, and the other session holds data
\* it loaded.
C16_Witness ==
    /\ ret.name = "add_vendor"
    /\ ret.result = "False"
    /\ file.kind = "doc"
    /\ Len(file.doc.vendors) = 1
    /\ acked = {<<"a", "c">>}
    /\ \E s \in Sessions : pc[s] = "ready"

\* C17: add_product with a negative price raises ValidationError and leaves
\* the document and the backup directory as they were; no add_product call
\* goes on to save a product with a negative price.
C17_NegativePriceRejected ==
    [][\A s \in Sessions :
        /\ (pc[s] = "idle" /\ pc'[s] = "save" /\ call'[s].name = "add_product")
           => mem'[s].products[Len(mem'[s].products)].price >= 0
        /\ (pc[s] = "idle" /\ ret'.name = "add_product" /\ ret'.sess = s)
           => /\ ret'.result = "ValidationError"
              /\ file' = file
              /\ backups' = backups
              /\ lock' = lock]_vars

\* The latest call was an add_product that raised ValidationError while the
\* Store holds the product listed before at its price.
C17_Witness ==
    /\ ret.name = "add_product"
    /\ ret.result = "ValidationError"
    /\ file.kind = "doc"
    /\ Len(file.doc.products) = 1
    /\ file.doc.products[1].price = 500

\* C18: every product of the persisted Store has a price of at least 0.
C18_PricesNonNegative ==
    file.kind = "doc" =>
        \A i \in DOMAIN file.doc.products : file.doc.products[i].price >= 0

\* C19: an update_order_status call goes on to save only when the Store it
\* loaded holds an order with the id, and then the saved Store has as many
\* orders as the loaded one; a call that finds no order raises
\* DatabaseError and leaves the document and the backup directory as they
\* were.
C19_UnknownOrderRejected ==
    [][\A s \in Sessions :
        /\ (pc[s] = "idle" /\ pc'[s] = "save"
            /\ call'[s].name = "update_order_status")
           => /\ \E i \in DOMAIN Load(file).orders :
                    Load(file).orders[i].id = call'[s].arg
              /\ Len(mem'[s].orders) = Len(Load(file).orders)
        /\ (pc[s] = "idle" /\ ret'.name = "update_order_status" /\ ret'.sess = s)
           => /\ ret'.result = "DatabaseError"
              /\ file' = file
              /\ backups' = backups
              /\ lock' = lock]_vars

\* The latest call was an update_order_status that raised DatabaseError
\* without saving: the Store holds its order, still Pending, and the backup
\* directory is as it was.
C19_Witness ==
    /\ ret.name = "update_order_status"
    /\ ret.result = "DatabaseError"
    /\ file = DocFile(StoreWithOrder, 0)
    /\ \A b \in backups : b.content.doc = StoreWithProduct

IsPrefix(a, b) == Len(a) <= Len(b) /\ \A k \in DOMAIN a : a[k] = b[k]

\* C20: the history of an order in the document written last is a prefix of
\* its history in the document written next (same id and creation
\* timestamp).
C20_HistoryAppendOnly ==
    [][file'.kind = "doc" =>
        \A i \in DOMAIN lastDoc.orders, j \in DOMAIN file'.doc.orders :
            (/\ file'.doc.orders[j].id = lastDoc.orders[i].id
             /\ file'.doc.orders[j].timestamp = lastDoc.orders[i].timestamp)
            => IsPrefix(lastDoc.orders[i].history, file'.doc.orders[j].history)]_vars

(***************************************************************************)
(* SpecDelete: two sessions deleting a product by id (u1 is the id of the   *)
(* listed product, u2 the id of none) or editing it in the inventory form,  *)
(* from the store with one product.                                         *)
(***************************************************************************)
NextDelete ==
    \E s \in Sessions :
        \/ LoadData(s)
        \/ Rerun(s)
        \/ \E id \in Ids : SoftDeleteProduct(s, id)
        \/ EditProduct(s, 1, "Cup", 700)
        \/ SaveSteps(s)

SpecDelete == InitOrders /\ [][NextDelete]_vars

(***************************************************************************)
(* SpecStats: get_vendor_stats(db_data, vendor_name) on the data a script   *)
(* run loaded, for every Store with two vendors, three products and up to   *)
(* MaxStatsOrders orders, each Pending or Shipped, and for the Store with   *)
(* one vendor, one product and one order.                                   *)
(***************************************************************************)
RECURSIVE SumPrice(_)
\* sum(o['product_snapshot']['price'] for o in orders)
SumPrice(orders) ==
    IF orders = <<>> THEN 0
    ELSE Head(orders).product_snapshot.price + SumPrice(Tail(orders))

\* The aggregation over all orders, whatever their vendor.
VendorStatsUnfiltered(db_data, vendor_name) ==
    [sales |-> SumPrice(db_data.orders),
     count |-> Len(db_data.orders),
     pending |-> Len(SelectSeq(db_data.orders, LAMBDA o : o.status = Pending))]

\* get_vendor_stats
VendorStats(db_data, vendor_name) ==
    LET orders == SelectSeq(db_data.orders,
                            LAMBDA o : o.product_snapshot.vendor = vendor_name)
    IN [sales |-> SumPrice(orders),
        count |-> Len(orders),
        pending |-> Len(SelectSeq(orders, LAMBDA o : o.status = Pending))]

\* Two vendors; Ac sells a Mug at 500 and a Cup at 700, Bo a Pot at 700.
StatsBase ==
    LET v == WithVendor(StoreWithVendor, "v2", <<"B", "o">>, "t0")
        p1 == WithProduct(v, "u1", <<"A", "c">>, "Mug", 500)
        p2 == WithProduct(p1, "u2", <<"A", "c">>, "Cup", 700)
    IN WithProduct(p2, "u3", <<"B", "o">>, "Pot", 700)

StatsPicks == [product : DOMAIN StatsBase.products, status : {Pending, Shipped}]

RECURSIVE StatsStore(_)
\* StatsBase after one create_order per pick, each followed by an
\* update_order_status when the pick is Shipped.
StatsStore(picks) ==
    IF picks = <<>> THEN StatsBase
    ELSE LET n == Len(picks)
             k == picks[n]
             d == WithOrder(StatsStore(SubSeq(picks, 1, n - 1)),
                            "o" \o ToString(n), n, StatsBase.products[k.product])
         IN IF k.status = Pending THEN d ELSE WithStatus(d, n, k.status)

StatsStores ==
    {StoreWithOrder} \cup
    UNION {{StatsStore(picks) : picks \in [1..n -> StatsPicks]} : n \in 0..MaxStatsOrders}

InitStats ==
    /\ \E d \in StatsStores :
          /\ file = DocFile(d, 0)
          /\ lastDoc = d
    /\ before = [kind |-> "doc", doc |-> StatsBase]
    /\ bdir = TRUE
    /\ backups = {}
    /\ clock = 0
    /\ ticks = 0
    /\ ui = [s \in Sessions |-> NewSession]
    /\ lock = Unlocked
    /\ pc = [s \in Sessions |-> "idle"]
    /\ mem = [s \in Sessions |-> NoData]
    /\ call = [s \in Sessions |-> NoCall]
    /\ ret = NoCall
    /\ acked = {}
    /\ writes = 0

\* get_vendor_stats(data, vendor_name) on the data of the script run: a pure
\* function, its result is all it leaves.
GetVendorStats(s, vendor_name) ==
    /\ pc[s] = "ready"
    /\ ret' = [name |-> "get_vendor_stats", sess |-> s, arg |-> vendor_name,
               result |-> VendorStats(mem[s], vendor_name)]
    /\ UNCHANGED <<disk, ticks, ui, pc, mem, call, acked>>

NextStats ==
    \E s \in Sessions :
        \/ LoadData(s)
        \/ Rerun(s)
        \/ \E n \in Names : GetVendorStats(s, n)

SpecStats == InitStats /\ [][NextStats]_vars

(***************************************************************************)
(* SpecIds: two sessions placing up to MaxOrders + 1 orders, each with an   *)
(* id drawn from Ids (the 8 hexadecimal characters kept of a uuid4 are one  *)
(* of 2^32 values, drawn independently for every order), and shipping one.  *)
(***************************************************************************)
\* create_order while the Store holds at most MaxOrders orders.
CreateOrderAgain(s, p, id) == CreateOrderUpTo(s, p, id, MaxOrders + 1)

NextIds ==
    \E s \in Sessions :
        \/ LoadData(s)
        \/ Rerun(s)
        \/ \E p \in Shown(s), id \in Ids : CreateOrderAgain(s, p, id)
        \/ UpdateOrderStatus(s, "u1", Shipped)
        \/ SaveBegin(s, clock)
        \/ SaveEndUncounted(s)

SpecIds == InitOrders /\ [][NextIds]_vars

(***************************************************************************)
(* SpecCreate: two sessions placing an order for the product as they loaded *)
(* it while the vendor renames and reprices it in the inventory form.       *)
(***************************************************************************)
NextCreate ==
    \E s \in Sessions :
        \/ LoadData(s)
        \/ Rerun(s)
        \/ \E p \in Shown(s) : CreateOrder(s, p, "u1")
        \/ EditProduct(s, 1, "Cup", 700)
        \/ SaveBegin(s, clock)
        \/ SaveEndUncounted(s)

SpecCreate == InitOrders /\ [][NextCreate]_vars

(***************************************************************************)
(* SpecCurrency: format_currency(amount) on the values a page can pass it: *)
(* integers, floats (in tenths), strings, None and float('nan').            *)
(***************************************************************************)
CURRENCY_SYMBOL == "Rs."

Amounts ==
    [kind : {"int"}, val : (-MaxAmount..MaxAmount) \cup {-1500, 999, 1000, 1500, 1234567}]
        \cup [kind : {"float"}, tenths : {-15005, -15, -5, 0, 5, 15, 15005}]
        \cup [kind : {"str"}, text : {"abc", "", "12"}]
        \cup {[kind |-> "None"], [kind |-> "nan"]}

\* int(amount) raises: TypeError for None, ValueError for text that is not
\* an integer literal and for nan.
IntRaises(a) ==
    \/ a.kind \in {"None", "nan"}
    \/ a.kind = "str" /\ a.text # "12"

\* int(amount): a float is truncated towards zero.
IntOf(a) ==
    CASE a.kind = "int" -> a.val
      [] a.kind = "float" ->
            IF a.tenths >= 0 THEN a.tenths \div 10 ELSE -((-a.tenths) \div 10)
      [] a.kind = "str" -> 12

\* Three digits of a group after the first.
Pad3(k) ==
    IF k < 10 THEN "00" \o ToString(k)
    ELSE IF k < 100 THEN "0" \o ToString(k)
    ELSE ToString(k)

RECURSIVE Grouped(_)
\* The format specifier "," on a natural number.
Grouped(n) ==
    IF n < 1000 THEN ToString(n)
    ELSE Grouped(n \div 1000) \o "," \o Pad3(n % 1000)

\* f"{int(amount):,}"
FormatInt(i) == IF i < 0 THEN "-" \o Grouped(-i) ELSE Grouped(i)

\* format_currency
FormatCurrency(amount) ==
    IF IntRaises(amount) THEN CURRENCY_SYMBOL \o " 0"
    ELSE CURRENCY_SYMBOL \o " " \o FormatInt(IntOf(amount))

\* A page renders an amount.
ShowAmount(s, amount) ==
    /\ pc[s] = "ready"
    /\ ret' = [name |-> "format_currency", sess |-> s, arg |-> amount,
               result |-> FormatCurrency(amount)]
    /\ UNCHANGED <<disk, ticks, ui, pc, mem, call, acked>>

NextCurrency ==
    \E s \in Sessions :
        \/ LoadData(s)
        \/ Rerun(s)
        \/ \E a \in Amounts : ShowAmount(s, a)

SpecCurrency == InitOrders /\ [][NextCurrency]_vars

(***************************************************************************)
(* SpecDashboard: two seller sessions in the order center.  Each script    *)
(* run loads the data, offers for the order the statuses the transition    *)
(* table allows from the status it loaded, and the Update button calls     *)
(* update_order_status with the chosen one.                                *)
(***************************************************************************)
\* render_order_center: the Update button of the i-th order of the loaded
\* data, with new_status one of possible_next_states.
UpdateFromDashboard(s, i, new) ==
    /\ pc[s] = "ready"
    /\ i \in DOMAIN mem[s].orders
    /\ new \in LegalNext(mem[s].orders[i].status)
    /\ LET id == mem[s].orders[i].id
           data == Load(file)
           k == FirstIndex(data.orders, id)
       IN IF k = 0
          THEN Return(s, "update_order_status", "DatabaseError")
          ELSE /\ Len(data.orders[k].history) < MaxHistory
               /\ GoSave(s, [name |-> "update_order_status", arg |-> id,
                             old |-> data.orders[k].status, new |-> new],
                         WithStatus(data, k, new))
    /\ UNCHANGED <<disk, ticks, ui, acked>>

NextDashboard ==
    \E s \in Sessions :
        \/ LoadData(s)
        \/ Rerun(s)
        \/ \E new \in Statuses : UpdateFromDashboard(s, 1, new)
        \/ SaveBegin(s, clock)
        \/ SaveEndUncounted(s)

SpecDashboard == InitStatus /\ [][NextDashboard]_vars

(***************************************************************************)
(* The checkout wizard.  ui[s] holds the checkout keys of the session's     *)
(* st.session_state (shipping_data and payment_data as the set of keys      *)
(* filled in) and the page its last script run rendered.  A button is       *)
(* handled in the script run its click starts, after that run's            *)
(* load_data(); each handler below ends with st.rerun() and is followed by  *)
(* what main() renders next.                                                *)
(***************************************************************************)
\* main() and render_checkout on session state u: the page shown and the
\* state the render leaves.  render_success_screen clears selected_product;
\* step 2 raises AttributeError (phase1 has no get_vendor_by_name) after the
\* Cancel button was drawn, and error_boundary shows the error page.
Rendered(u) ==
    IF u.selected_product = NoProduct
    THEN [u EXCEPT !.page = "market"]
    ELSE IF u.order_success_id # None
    THEN [u EXCEPT !.page = "success", !.selected_product = NoProduct]
    ELSE IF u.checkout_step = 1
    THEN [u EXCEPT !.page = "step1"]
    ELSE IF u.checkout_step = 2
    THEN [u EXCEPT !.page = "error"]
    ELSE [u EXCEPT !.page = "step3"]

\* The keys render_step_1_shipping stores in shipping_data.
ShippingKeys == {"name", "phone", "city", "area", "address"}

\* A handler of session s ends with st.rerun(), leaving session state u.
Click(s, u) ==
    /\ pc[s] = "ready"
    /\ ui' = [ui EXCEPT ![s] = Rendered(u)]
    /\ pc' = [pc EXCEPT ![s] = "idle"]
    /\ mem' = [mem EXCEPT ![s] = NoData]
    /\ ret' = NoCall
    /\ UNCHANGED <<disk, ticks, call, acked>>

\* Buy Now on product p of the feed, which lists the active products of
\* the loaded data.
BuyNow(s, p) ==
    /\ ui[s].page = "market"
    /\ p \in Shown(s)
    /\ p.active
    /\ Click(s, [ui[s] EXCEPT !.selected_product = p])

\* Continue to Payment with a valid name, phone number and address.
SubmitShipping(s) ==
    /\ ui[s].page = "step1"
    /\ Click(s, [ui[s] EXCEPT !.shipping_data = ShippingKeys,
                              !.checkout_step = 2])

\* Cancel Checkout, drawn above the wizard on every step.
CancelCheckout(s) ==
    /\ ui[s].page \in {"step1", "error", "step3"}
    /\ Click(s, [ui[s] EXCEPT !.selected_product = NoProduct])

\* Restart Application on the error page.
RestartApplication(s) ==
    /\ ui[s].page = "error"
    /\ Click(s, ui[s])

\* Continue Shopping on the success screen.  The run the click starts finds
\* selected_product None, so main() does not call render_checkout and the
\* button's handler is not reached.
ContinueShopping(s) ==
    /\ ui[s].page = "success"
    /\ Click(s, ui[s])

\* Delete in the seller's inventory, which a session in checkout does not
\* see: main() draws the checkout instead of the dashboard.
DeleteFromInventory(s) ==
    /\ ui[s].selected_product = NoProduct
    /\ SoftDeleteProduct(s, "u1")

(***************************************************************************)
(* SpecCheckout: two buyers going through the wizard from the marketplace   *)
(* of the store with one product, while the vendor may delete the product.  *)
(***************************************************************************)
NextCheckout ==
    \E s \in Sessions :
        \/ LoadData(s)
        \/ Rerun(s)
        \/ \E p \in Shown(s) : BuyNow(s, p)
        \/ SubmitShipping(s)
        \/ CancelCheckout(s)
        \/ RestartApplication(s)
        \/ DeleteFromInventory(s)
        \/ SaveBegin(s, clock)
        \/ SaveEndUncounted(s)

SpecCheckout == InitOrders /\ [][NextCheckout]_vars

\* Streamlit runs the script of a session whose button was clicked and
\* completes a started save; a buyer on a page of the wizard who has not
\* cancelled goes on with the wizard.
FairCheckout ==
    \A s \in Sessions :
        /\ WF_vars(LoadData(s))
        /\ WF_vars(SubmitShipping(s))
        /\ WF_vars(RestartApplication(s))
        /\ WF_vars(SaveBegin(s, clock))
        /\ WF_vars(SaveEndUncounted(s))

SpecCheckoutFair == SpecCheckout /\ FairCheckout

(***************************************************************************)
(* SpecPlaceOrder: _process_order, the handler of PLACE ORDER on the review *)
(* page, entered by a buyer whose session holds the product it selected    *)
(* and the shipping and payment data of steps 1 and 2, while the other      *)
(* session is the vendor's.  The handler is taken from its entry: with      *)
(* step 2 raising, no click sequence of the wizard arrives at it.           *)
(***************************************************************************)
ReviewPage ==
    [page |-> "step3",
     selected_product |-> StoreWithProduct.products[1],
     checkout_step |-> 3,
     shipping_data |-> ShippingKeys,
     payment_data |-> {"method"},
     order_id |-> None,
     order_success_id |-> None]

InitPlaceOrder ==
    /\ file = DocFile(StoreWithProduct, 0)
    /\ lastDoc = StoreWithProduct
    /\ before = [kind |-> "doc", doc |-> StoreWithVendor]
    /\ bdir = TRUE
    /\ backups = {[name |-> 0, mtime |-> 0,
                   content |-> [kind |-> "doc", doc |-> StoreWithVendor]]}
    /\ clock = 0
    /\ ticks = 0
    /\ ui = [s \in Sessions |-> IF s = 1 THEN ReviewPage ELSE NewSession]
    /\ lock = Unlocked
    /\ pc = [s \in Sessions |-> "idle"]
    /\ mem = [s \in Sessions |-> NoData]
    /\ call = [s \in Sessions |-> NoCall]
    /\ ret = NoCall
    /\ acked = {}
    /\ writes = 3

\* _validate_stock: the product is in a fresh load and active
InStock(product_id) ==
    LET fresh_data == Load(file)
    IN \E i \in DOMAIN fresh_data.products :
          /\ fresh_data.products[i].id = product_id
          /\ fresh_data.products[i].active

\* _process_order up to the final inventory check: on failure st.error and
\* return, the run ends on the review page.
ValidateStock(s) ==
    /\ pc[s] = "ready"
    /\ ui[s].page = "step3"
    /\ IF InStock(ui[s].selected_product.id)
       THEN /\ ui' = [ui EXCEPT ![s].page = "validated"]
            /\ UNCHANGED <<pc, mem>>
       ELSE /\ pc' = [pc EXCEPT ![s] = "idle"]
            /\ mem' = [mem EXCEPT ![s] = NoData]
            /\ UNCHANGED ui
    /\ ret' = NoCall
    /\ UNCHANGED <<disk, ticks, call, acked>>

\* _process_order: phase1.db.create_order(product_obj=product, ...) with the
\* product of the session state.
ProcessOrderCreate(s, id) ==
    /\ pc[s] = "ready"
    /\ ui[s].page = "validated"
    /\ ticks < MaxOrders
    /\ LET data == Load(file)
       IN /\ Len(data.orders) < MaxOrders
          /\ GoSave(s, [name |-> "create_order", arg |-> id],
                    WithOrder(data, id, ticks + 1, ui[s].selected_product))
    /\ ticks' = ticks + 1
    /\ ui' = [ui EXCEPT ![s].page = "placing", ![s].order_id = id]
    /\ UNCHANGED <<disk, acked>>

\* _process_order after create_order returned: order_success_id is set and
\* st.rerun() brings the success screen.
OrderPlaced(s) ==
    /\ pc[s] = "idle"
    /\ ui[s].page = "placing"
    /\ ui' = [ui EXCEPT ![s] = Rendered([ui[s] EXCEPT
                                 !.order_success_id = ui[s].order_id])]
    /\ ret' = NoCall
    /\ UNCHANGED <<disk, ticks, pc, mem, call, acked>>

\* A script run starts when no handler of the session is under way.
StartRun(s) ==
    /\ ui[s].page # "placing"
    /\ LoadData(s)

NextPlaceOrder ==
    \E s \in Sessions :
        \/ StartRun(s)
        \/ Rerun(s)
        \/ ValidateStock(s)
        \/ ProcessOrderCreate(s, "u1")
        \/ OrderPlaced(s)
        \/ ContinueShopping(s)
        \/ \E p \in Shown(s) : BuyNow(s, p)
        \/ DeleteFromInventory(s)
        \/ EditProduct(s, 1, "Cup", 700)
        \/ SaveBegin(s, clock)
        \/ SaveEndUncounted(s)

SpecPlaceOrder == InitPlaceOrder /\ [][NextPlaceOrder]_vars

(***************************************************************************)
(* SpecRecovery: SpecBackups with the server process killed while a save    *)
(* is writing the document.  The lock dies with the process, the document   *)
(* stays as the interrupted write left it, and the next start runs the      *)
(* integrity check, which restores the latest backup.                       *)
(***************************************************************************)
\* The process ends during json.dump and is started again.  The interrupted
\* write is counted.
Crash ==
    /\ \E s \in Sessions : pc[s] = "writing"
    /\ writes < MaxWrites
    /\ \E b \in Sessions : pc' = [s \in Sessions |-> IF s = b THEN "boot" ELSE "import"]
    /\ lock' = Unlocked
    /\ writes' = writes + 1
    /\ mem' = [s \in Sessions |-> NoData]
    /\ call' = [s \in Sessions |-> NoCall]
    /\ ret' = NoCall
    /\ UNCHANGED <<file, lastDoc, before, bdir, backups, clock, ticks, ui, acked>>

NextRecovery ==
    \/ Crash
    \/ \E s \in Sessions :
        \/ Editing(s)
        \/ writes < MaxWrites /\ \E t \in {clock, clock + 1} : SaveBegin(s, t)
        \/ SaveEndCounted(s)
        \/ EnsureIntegrity(s)
        \/ Imported(s)

SpecRecovery == InitBackups /\ [][NextRecovery]_vars

(***************************************************************************)
(* SpecCrash: SpecReboot with the process killed while a save is writing.  *)
(***************************************************************************)
NextCrash == NextReboot \/ Crash

SpecCrash == InitBoot /\ [][NextCrash]_vars

(***************************************************************************)
(* SpecLock: every path into _save.  The program starts as in SpecBoot      *)
(* (the integrity check creating, migrating, restoring or resetting the     *)
(* document), both sessions then save the settings form over and over, a    *)
(* save of a running session can raise, and the process can be started      *)
(* again.  SpecLockFair adds the scheduling: a thread that is writing goes   *)
(* on to the end of the with block, and a thread waiting for the lock gets   *)
(* it if it is free again and again.                                        *)
(***************************************************************************)
\* Save Configuration on the loaded data, when it holds the vendor.
SettingsForm(s) ==
    /\ pc[s] = "ready"
    /\ IsObject(mem[s])
    /\ "vendors" \in DOMAIN mem[s]
    /\ SaveSettings(s, 1, "t1")

\* _save of a running session up to open(): the lock is taken and the
\* backup made; the open may raise.
Acquire(s) ==
    \/ SaveBegin(s, clock)
    \/ SaveMkdirFails(s)
    \/ ~Booting(s) /\ SaveOpenFails(s, clock)

\* json.dump to the end of the with block; the dump may raise.
Release(s) ==
    \/ SaveEndUncounted(s)
    \/ ~Booting(s) /\ SaveFails(s)

NextLock ==
    \/ Restart
    \/ \E s \in Sessions :
        \/ EnsureIntegrity(s)
        \/ Imported(s)
        \/ LoadData(s)
        \/ Rerun(s)
        \/ SettingsForm(s)
        \/ Acquire(s)
        \/ Release(s)

SpecLock == InitBoot /\ [][NextLock]_vars

FairLock ==
    \A s \in Sessions : SF_vars(Acquire(s)) /\ WF_vars(Release(s))

SpecLockFair == SpecLock /\ FairLock

RECURSIVE TotalPrice(_, _)
\* The sum of product_snapshot.price over the orders of d at the indices S.
TotalPrice(d, S) ==
    IF S = {} THEN 0
    ELSE LET i == CHOOSE i \in S : TRUE
         IN d.orders[i].product_snapshot.price + TotalPrice(d, S \ {i})

\* C23: get_vendor_stats returns as count the number of orders whose
\* product_snapshot vendor is the given name, as sales the sum of their
\* product_snapshot prices and as pending the number of them with status
\* Pending; for the Store after add_vendor(Ac), add_product(Ac, Mug, 500)
\* and one create_order of that product it returns 500, 1 and 1.
C23_VendorStats ==
    ret.name = "get_vendor_stats" =>
        LET d == file.doc
            mine == {i \in DOMAIN d.orders :
                        d.orders[i].product_snapshot.vendor = ret.arg}
        IN /\ ret.result.count = Cardinality(mine)
           /\ ret.result.sales = TotalPrice(d, mine)
           /\ ret.result.pending =
                 Cardinality({i \in mine : d.orders[i].status = Pending})
           /\ (d = StoreWithOrder /\ ret.arg = <<"A", "c">>)
                 => ret.result = [sales |-> 500, count |-> 1, pending |-> 1]

\* The statistics of Ac over a Store with three orders, one of them for a
\* product of Bo and one of Ac's two shipped: 1200 in two orders, one pending.
C23_Witness ==
    /\ ret.name = "get_vendor_stats"
    /\ ret.arg = <<"A", "c">>
    /\ Len(file.doc.orders) = 3
    /\ ret.result = [sales |-> 1200, count |-> 2, pending |-> 1]

\* The integrity check of session s ends in this step.
EndsCheck(s) == Booting(s) /\ pc'[s] = "idle"

\* C24: the integrity check of a document that is a JSON object lacking
\* top-level keys of the default schema goes on to save, and the document
\* its save leaves has the keys the document had, each with the value it
\* had, and every missing key of the default schema with its default value.
C24_MigrationAdditive ==
    [][\A s \in Sessions :
        /\ (pc[s] = "boot" /\ pc'[s] # "boot" /\ file.kind = "doc"
            /\ IsObject(file.doc) /\ ~(SchemaKeys \subseteq DOMAIN file.doc))
           => /\ pc'[s] = "save"
              /\ call'[s].arg = "migrate"
        /\ (EndsCheck(s) /\ pc[s] = "writing" /\ call[s].arg = "migrate")
           => /\ file'.kind = "doc"
              /\ DOMAIN file'.doc = DOMAIN lastDoc \cup DOMAIN DefaultSchema
              /\ \A k \in DOMAIN lastDoc : file'.doc[k] = lastDoc[k]
              /\ \A k \in DOMAIN DefaultSchema \ DOMAIN lastDoc :
                    file'.doc[k] = DefaultSchema[k]]_vars

\* The integrity check migrated the legacy document: it holds the vendor
\* it held and empty orders.
C24_Witness ==
    /\ ret.name = "_ensure_integrity"
    /\ ret.result = "ok"
    /\ file.kind = "doc"
    /\ SchemaKeys \subseteq DOMAIN file.doc
    /\ file.doc.vendors = Legacy.vendors
    /\ file.doc.orders = <<>>
    /\ before = [kind |-> "doc", doc |-> Legacy]

\* C25: the integrity check of a document that has every top-level key of
\* the default schema returns without a write and without a backup, a
\* parseable document the check leaves as it is gets the same treatment
\* from the next run, and the document a migration saved has every key, so
\* that a second run leaves the Store of the first.
C25_MigrationIdempotent ==
    [][\A s \in Sessions :
        /\ (pc[s] = "boot" /\ pc'[s] # "boot" /\ file.kind = "doc"
            /\ (SchemaKeys \subseteq DOMAIN file.doc \/ ~IsObject(file.doc)))
           => /\ pc'[s] = "idle"
              /\ UNCHANGED <<file, bdir, backups, writes>>
        /\ (EndsCheck(s) /\ pc[s] = "writing" /\ call[s].arg = "migrate")
           => /\ file'.kind = "doc"
              /\ SchemaKeys \subseteq DOMAIN file'.doc]_vars

\* The second integrity check of a legacy document returned: the document
\* is the one the first check migrated and was written once.
C25_Witness ==
    /\ ret.name = "_ensure_integrity"
    /\ ret.result = "unchanged"
    /\ file.kind = "doc"
    /\ file.doc = Migrated(Legacy)
    /\ writes = 1

\* C26: an integrity check that found the document unparseable and no
\* backup (no backup directory or an empty one) ends with the default Store
\* as the persisted document.
C26_ResetsToDefault ==
    [][\A s \in Sessions :
        (/\ EndsCheck(s)
         /\ \/ /\ pc[s] = "boot"
               /\ file.kind \in {"partial", "undecodable"}
               /\ (~bdir \/ backups = {})
            \/ /\ pc[s] = "writing"
               /\ call[s].arg = "reset")
        => file' = DocFile(DefaultSchema, clock')]_vars

\* C27: load() of an unparseable document whose latest backup is unparseable
\* too returns the default schema and restores nothing; the restore of the
\* integrity check copies the latest backup and returns without checking
\* the document again.
C27_NoRecursiveRestore ==
    [][\A s \in Sessions :
        /\ (LoadsData(s) /\ file.kind \notin {"doc", "absent"} /\ backups # {}
            /\ LatestBackup(backups).content.kind # "doc")
           => /\ mem'[s] = DefaultSchema
              /\ UNCHANGED <<file, backups>>
        /\ (pc[s] = "boot" /\ ret'.name = "_ensure_integrity" /\ ret'.sess = s
            /\ ret'.result = "restored")
           => /\ pc'[s] = "idle"
              /\ Content(file') = LatestBackup(backups).content]_vars

\* The integrity check restored an unparseable backup over the unparseable
\* document, and a session then loaded the default schema from it.
C27_Witness ==
    /\ file.kind = "partial"
    /\ backups # {}
    /\ LatestBackup(backups).content.kind = "partial"
    /\ file.mtime = LatestBackup(backups).mtime
    /\ \E s \in Sessions : pc[s] = "ready" /\ mem[s] = DefaultSchema

C29_VendorExistsAtCreation ==
    [][\A s \in Sessions :
        (pc[s] = "idle" /\ pc'[s] = "save" /\ call'[s].name = "add_product")
        => mem'[s].products[Len(mem'[s].products)].vendor
              \in VendorNames(Load(file))]_vars

\* The ids of the entities of a collection are pairwise different.
UniqueIds(coll) == \A i, j \in DOMAIN coll : coll[i].id = coll[j].id => i = j

\* C30: in the persisted Store no two orders share an id, no two products
\* and no two vendors.
C30_UniqueIds ==
    file.kind = "doc" =>
        /\ UniqueIds(file.doc.orders)
        /\ UniqueIds(file.doc.products)
        /\ UniqueIds(file.doc.vendors)

\* C31: format_currency returns "Rs. 0" for every negative amount and for
\* every input that is not a number, and "Rs. " followed by the amount for a
\* non-negative integer.
C31_FormatCurrency ==
    ret.name = "format_currency" =>
        LET a == ret.arg
        IN /\ (a.kind = "int" /\ a.val < 0) => ret.result = "Rs. 0"
           /\ (a.kind = "float" /\ a.tenths < 0) => ret.result = "Rs. 0"
           /\ (a.kind \in {"None", "nan"}) => ret.result = "Rs. 0"
           /\ (a.kind = "str" /\ a.text \in {"abc", ""}) => ret.result = "Rs. 0"
           /\ (a.kind = "int" /\ a.val >= 0 /\ a.val < 1000)
                => ret.result = "Rs. " \o ToString(a.val)
           /\ (a.kind = "int" /\ a.val = 1500) => ret.result = "Rs. 1,500"

\* C33: every update_order_status call made by the Update button changes
\* the order from the status it has in the document the call loaded to a
\* status the transition table allows from that status.
C33_DashboardTransitionsLegal ==
    \A s \in Sessions :
        call[s].name = "update_order_status" =>
            call[s].new \in LegalNext(call[s].old)

\* C34: a buyer who has submitted the shipping form and does not cancel
\* eventually sees the success screen of the order.
C34_BuyerReachesSuccess ==
    \A s \in Sessions :
        (ui[s].checkout_step = 2 /\ ui[s].selected_product # NoProduct)
            ~> (ui[s].page = "success" \/ ui[s].selected_product = NoProduct)

\* C35: Buy Now opens the wizard on step 1 with no shipping data, no payment
\* data and no success id.
C35_BuyNowStartsFresh ==
    [][\A s \in Sessions :
        (ui[s].page = "market" /\ ui'[s].selected_product # NoProduct)
        => /\ ui'[s].page = "step1"
           /\ ui'[s].checkout_step = 1
           /\ ui'[s].shipping_data = {}
           /\ ui'[s].payment_data = {}
           /\ ui'[s].order_success_id = None]_vars

C36_RecencyAgrees ==
    /\ \E latest \in backups :
          /\ latest.name = clock
          /\ \A b \in backups : b.name <= latest.name /\ b.mtime <= latest.mtime
    /\ (ret.name = "_ensure_integrity" /\ ret.result = "restored")
       => Content(file) = before

\* The latest backup is restored after the save that made it was
\* interrupted, its rotation having removed the oldest backup.
C36_Witness ==
    /\ ret.name = "_ensure_integrity"
    /\ ret.result = "restored"
    /\ Cardinality(backups) = MAX_BACKUPS
    /\ \A b \in backups : b.name # 1

\* C37: when restore_latest_backup has copied a backup made by a save of
\* this run, the document is a JSON object with the keys of the schema.
C37_RestoresParseable ==
    (/\ ret.name = "_ensure_integrity"
     /\ ret.result = "restored"
     /\ \E b \in backups : b.name = clock)
    => /\ file.kind = "doc"
       /\ IsObject(file.doc)
       /\ SchemaKeys \subseteq DOMAIN file.doc

\* C38: a product the persisted Store holds with active = false is not
\* held with active = true by any Store persisted later.
C38_SoftDeletePermanent ==
    [][\A i \in DOMAIN lastDoc.products :
        ~lastDoc.products[i].active
        => \A k \in DOMAIN lastDoc'.products :
              lastDoc'.products[k].id = lastDoc.products[i].id
              => ~lastDoc'.products[k].active]_vars

=============================================================================
